---- MODULE Spec2Model ----
(***************************************************************************)
(* Model of the live-share ordering rule (LiveEvent.isNewer), the shared   *)
(* clock (SharedClock) and the presence roster (LivePresence).             *)
(*                                                                         *)
(* Optional values (T | undefined) are sequences of length 0 or 1: <<>> is *)
(* undefined, <<v>> is the value v. Strings are sequences of character     *)
(* ranks, so that localeCompare is a computed ordering.                    *)
(***************************************************************************)
EXTENDS Integers, Sequences, FiniteSets, TLC

VARIABLES
    callCurrent,      \* isNewer(): argument `current` (optional record)
    callReceived,     \* isNewer(): argument `received`
    callDebounce,     \* isNewer(): argument `debouncePeriod`
    callResult,       \* isNewer(): optional return value, <<>> before the call
    records,          \* the set of records the replicas are delivered
    debouncePeriod,   \* debounce period the replicas pass to isNewer()
    current,          \* per replica: the record held (optional)
    seen,             \* per replica: the records delivered so far
    _serverTime,      \* SharedClock: optional {offset, requestLatency}
    _syncTimer,       \* SharedClock: "undefined", or the handle of a timer that
                      \*   is "pending" or is "stale" (it has fired)
    _retries,         \* SharedClock: probes since the last improvement
    _lastTimeSent,    \* SharedClock: last timestamp returned
    orphanTimers,     \* pending timers whose handle _syncTimer no longer holds
    inflight,         \* improveAccuracy() calls awaiting getNtpTime()
    probed,           \* history: a probe has succeeded since the last stop()
    maxIssued,        \* history: greatest timestamp returned so far (optional)
    issuedBeforeStop, \* history: a timestamp was returned before the last stop()
    stopped,          \* history: stop() was called and start() not since
    lastLatency,      \* history: latency of the probe completed last (optional)
    bestLatency,      \* history: lowest latency of the probes completed since
                      \*   the last stop() or start() (optional)
    lastCall,         \* outcome of the call made in the last step, if any
    _users,           \* LivePresence: list of LivePresenceUser
    _currentPresence, \* LivePresence: the local presence event
    _scope,           \* LivePresence: TRUE once the event scope is created
    connected,        \* runtime.connected
    waiting,          \* continuations waiting in waitUntilConnected(), in order
    echoes,           \* local events sent and not yet echoed back
    lastOp,           \* outcome of the LivePresence step made last
    lastMerge,        \* history: the updateMembersList() call made last (optional)
    mergedOnce,       \* history: the records merged, while no two of them had
                      \*   the same userId (optional)
    _synchronizer,    \* LivePresence: "undefined", "live" or "disposed"
    orphanSynchronizers \* synchronizers created and no longer referred to

callVars == <<callCurrent, callReceived, callDebounce, callResult>>
foldVars == <<records, debouncePeriod, current, seen>>
clockVars == <<_serverTime, _syncTimer, _retries, _lastTimeSent, orphanTimers,
               inflight, probed, maxIssued, issuedBeforeStop, stopped,
               lastLatency, bestLatency, lastCall>>
presenceVars == <<_users, _currentPresence, _scope, connected, waiting, echoes,
                  lastOp, lastMerge, mergedOnce, _synchronizer,
                  orphanSynchronizers>>
syncVars == <<_synchronizer, orphanSynchronizers>>
vars == <<callVars, foldVars, clockVars, presenceVars>>

----------------------------------------------------------------------------
(* Bounds *)

MaxTime == 2
MaxDebounce == 2
MaxRecords == 3
MaxLatency == 2
MaxLoops == 2
MaxIssued == 4
MaxPending == 2
ExpirationPeriod == 1
MaxMergeTime == 1
MaxStamps == 3

----------------------------------------------------------------------------
(* Values *)

Undefined == <<>>
Some(v) == <<v>>

\* Strings over the characters "a" (rank 1) and "b" (rank 2).
Strings == {<<>>, <<1>>, <<2>>, <<1, 2>>}

\* clientId?: string
ClientIds == {Undefined} \cup {Some(s) : s \in Strings}

Timestamps == 0..MaxTime

\* IClientTimestamp: { timestamp: number; clientId?: string }
ClientTimestamps == [timestamp : Timestamps, clientId : ClientIds]

DebouncePeriods == 0..MaxDebounce

\* debouncePeriod = 0, the default of isNewer()
DefaultDebouncePeriod == 0

----------------------------------------------------------------------------
(* LiveEvent.isNewer *)

\* String.prototype.localeCompare on the modelled alphabet: negative, zero or
\* positive as a sorts before, equal to or after b.
RECURSIVE localeCompare(_, _)
localeCompare(a, b) ==
    IF a = <<>> /\ b = <<>> THEN 0
    ELSE IF a = <<>> THEN -1
    ELSE IF b = <<>> THEN 1
    ELSE IF Head(a) < Head(b) THEN -1
    ELSE IF Head(a) > Head(b) THEN 1
    ELSE localeCompare(Tail(a), Tail(b))

\* (clientId || "")
OrEmpty(clientId) == IF clientId = Undefined THEN <<>> ELSE clientId[1]

\* Mutant: ties between equal client ids are taken as newer (cmp < 0).
SameTimestampAcceptsEqual(cur, received) ==
    LET cmp == localeCompare(OrEmpty(cur.clientId), OrEmpty(received.clientId))
    IN  IF cmp < 0 THEN FALSE ELSE TRUE

\* Mutant: the higher sorting client id wins ties.
SameTimestampHigherWins(cur, received) ==
    LET cmp == localeCompare(OrEmpty(cur.clientId), OrEmpty(received.clientId))
    IN  IF cmp >= 0 THEN FALSE ELSE TRUE

\* current.timestamp == received.timestamp
SameTimestamp(cur, received) ==
    LET cmp == localeCompare(OrEmpty(cur.clientId), OrEmpty(received.clientId))
    IN  IF cmp <= 0 THEN FALSE ELSE TRUE

\* Mutant: an older event at exactly the debounce distance is ignored.
OlderReceivedStrict(cur, received, period) ==
    LET delta == cur.timestamp - received.timestamp
    IN  IF delta >= period THEN FALSE ELSE TRUE

\* Mutant: older events are always taken.
OlderReceivedAlways(cur, received, period) == TRUE

\* current.timestamp > received.timestamp
OlderReceived(cur, received, period) ==
    LET delta == cur.timestamp - received.timestamp
    IN  IF delta > period THEN FALSE ELSE TRUE

\* Mutant: a newer event at exactly the debounce distance is rejected.
NewerReceivedStrict(cur, received, period) ==
    LET delta == received.timestamp - cur.timestamp
    IN  IF delta <= period THEN FALSE ELSE TRUE

\* received.timestamp > current.timestamp
NewerReceived(cur, received, period) ==
    LET delta == received.timestamp - cur.timestamp
    IN  IF delta < period THEN FALSE ELSE TRUE

isNewer(cur, received, period) ==
    IF cur # Undefined
    THEN IF cur[1].timestamp = received.timestamp
         THEN SameTimestamp(cur[1], received)
         ELSE IF cur[1].timestamp > received.timestamp
              THEN OlderReceived(cur[1], received, period)
              ELSE NewerReceived(cur[1], received, period)
    ELSE TRUE

----------------------------------------------------------------------------
(* One call of isNewer() on drawn arguments *)

NoCall == [op |-> "none", threw |-> FALSE, value |-> Undefined,
           prevMax |-> Undefined, lastBefore |-> 0]

\* SharedClock after construction.
ClockIdle ==
    /\ _serverTime = Undefined
    /\ _syncTimer = "undefined"
    /\ _retries = 0
    /\ _lastTimeSent = 0
    /\ orphanTimers = 0
    /\ inflight = 0
    /\ probed = FALSE
    /\ maxIssued = Undefined
    /\ issuedBeforeStop = FALSE
    /\ stopped = FALSE
    /\ lastLatency = Undefined
    /\ bestLatency = Undefined
    /\ lastCall = NoCall

NoOp == [op |-> "none", threw |-> FALSE, emitted |-> Undefined]

\* LivePresence after construction.
PresenceIdle ==
    /\ _users = <<>>
    /\ _currentPresence = [timestamp |-> 0, userId |-> <<>>, state |-> "offline",
                           data |-> Undefined, clientId |-> Undefined]
    /\ _scope = FALSE
    /\ connected = FALSE
    /\ waiting = <<>>
    /\ echoes = {}
    /\ lastOp = NoOp
    /\ lastMerge = Undefined
    /\ mergedOnce = Some({})
    /\ _synchronizer = "undefined"
    /\ orphanSynchronizers = 0

FoldIdle ==
    /\ records = {}
    /\ debouncePeriod = DefaultDebouncePeriod
    /\ current = [r \in {"A", "B"} |-> Undefined]
    /\ seen = [r \in {"A", "B"} |-> {}]

CallIdle ==
    /\ callCurrent = Undefined
    /\ callReceived = [timestamp |-> 0, clientId |-> Undefined]
    /\ callDebounce = DefaultDebouncePeriod
    /\ callResult = Undefined

InitCall ==
    /\ callCurrent \in {Undefined} \cup {Some(c) : c \in ClientTimestamps}
    /\ callReceived \in ClientTimestamps
    /\ callDebounce \in DebouncePeriods
    /\ callResult = Undefined
    /\ FoldIdle
    /\ ClockIdle
    /\ PresenceIdle

CallIsNewer ==
    /\ callResult = Undefined
    /\ callResult' = Some(isNewer(callCurrent, callReceived, callDebounce))
    /\ UNCHANGED <<callCurrent, callReceived, callDebounce, foldVars, clockVars,
                   presenceVars>>

NextCall == CallIsNewer

SpecIsNewer == InitCall /\ [][NextCall]_vars

----------------------------------------------------------------------------
(* Replicas folding isNewer() over the records they are delivered:         *)
(* current := received whenever isNewer(current, received, debouncePeriod) *)

Replicas == {"A", "B"}

\* No two records of S agree on (timestamp, clientId || "").
DistinctPairs(S) ==
    \A x, y \in S :
        (x.timestamp = y.timestamp /\ OrEmpty(x.clientId) = OrEmpty(y.clientId))
            => x = y

RecordSets ==
    {S \in SUBSET ClientTimestamps :
        /\ Cardinality(S) >= 1
        /\ Cardinality(S) <= MaxRecords
        /\ DistinctPairs(S)}

InitReplicas ==
    /\ records \in RecordSets
    /\ debouncePeriod \in DebouncePeriods
    /\ current = [r \in Replicas |-> Undefined]
    /\ seen = [r \in Replicas |-> {}]
    /\ CallIdle
    /\ ClockIdle
    /\ PresenceIdle

InitFold ==
    /\ InitReplicas
    /\ debouncePeriod = DefaultDebouncePeriod

Receive(r, received) ==
    /\ current' = [current EXCEPT ![r] =
                      IF isNewer(current[r], received, debouncePeriod)
                      THEN Some(received)
                      ELSE current[r]]
    /\ seen' = [seen EXCEPT ![r] = seen[r] \cup {received}]
    /\ UNCHANGED <<records, debouncePeriod, callVars, clockVars, presenceVars>>

NextFold == \E r \in Replicas : \E received \in records : Receive(r, received)

\* The replicas with the debounce period of the roster (the default, 0).
SpecFold == InitFold /\ [][NextFold]_vars

\* The replicas with any debounce period.
SpecReplicas == InitReplicas /\ [][NextFold]_vars

----------------------------------------------------------------------------
(* SharedClock *)

SHARED_CLOCK_IMPROVE_ACCURACY_ATTEMPTS == 5

\* new Date().getTime(): any value at each read, so the wall clock may jump
\* forwards or backwards between two reads.
LocalTimes == Timestamps

\* ntpTimeInUTC reported by the host.
ServerTimes == Timestamps

\* performance.now() differences.
Latencies == 0..MaxLatency

Max(a, b) == IF a >= b THEN a ELSE b

\* Sampling loops alive: probes in flight and pending timers.
Loops == inflight + orphanTimers + (IF _syncTimer = "pending" THEN 1 ELSE 0)

\* getSessionTimeOffset(): the offset computed from a completed probe.
getSessionTimeOffset(ntpTimeInUTC, requestLatency, now) ==
    LET serverTimeInUtc == ntpTimeInUTC + (requestLatency \div 2)
    IN  [offset |-> serverTimeInUtc - now, requestLatency |-> requestLatency]

\* Mutant: the adjusted time is returned without the clamp.
AdjustedTimestampUnclamped(now) == now + _serverTime[1].offset

\* Math.max(new Date().getTime() + offset, _lastTimeSent + 1)
AdjustedTimestamp(now) == Max(now + _serverTime[1].offset, _lastTimeSent + 1)

getTimestamp ==
    /\ _lastTimeSent < MaxIssued
    /\ IF _serverTime = Undefined
       THEN /\ lastCall' = [op |-> "getTimestamp", threw |-> TRUE,
                            value |-> Undefined, prevMax |-> maxIssued,
                            lastBefore |-> _lastTimeSent]
            /\ UNCHANGED <<_lastTimeSent, maxIssued>>
       ELSE \E now \in LocalTimes :
              /\ _lastTimeSent' = AdjustedTimestamp(now)
              /\ lastCall' = [op |-> "getTimestamp", threw |-> FALSE,
                              value |-> Some(_lastTimeSent'),
                              prevMax |-> maxIssued,
                              lastBefore |-> _lastTimeSent]
              /\ maxIssued' = IF maxIssued = Undefined
                              THEN Some(_lastTimeSent')
                              ELSE Some(Max(maxIssued[1], _lastTimeSent'))
    /\ UNCHANGED <<_serverTime, _syncTimer, _retries, orphanTimers, inflight,
                   probed, issuedBeforeStop, stopped, lastLatency, bestLatency,
                   callVars, foldVars, presenceVars>>

getMaxTimestampError ==
    /\ lastCall' =
         IF _serverTime = Undefined
         THEN [op |-> "getMaxTimestampError", threw |-> TRUE,
               value |-> Undefined, prevMax |-> maxIssued,
               lastBefore |-> _lastTimeSent]
         ELSE [op |-> "getMaxTimestampError", threw |-> FALSE,
               value |-> Some(_serverTime[1].requestLatency \div 2),
               prevMax |-> maxIssued, lastBefore |-> _lastTimeSent]
    /\ UNCHANGED <<_serverTime, _syncTimer, _retries, _lastTimeSent,
                   orphanTimers, inflight, probed, maxIssued, issuedBeforeStop,
                   stopped, lastLatency, bestLatency, callVars, foldVars, presenceVars>>

\* Mutant: stop() keeps the estimate.
StopKeepsEstimate ==
    /\ _serverTime' = _serverTime
    /\ _retries' = 0
    /\ _syncTimer' = "undefined"

\* stop(): the fields it assigns. clearTimeout() cancels the timer _syncTimer
\* refers to when that timer is pending and does nothing when it has fired.
StopEffect ==
    /\ _serverTime' = Undefined
    /\ _retries' = 0
    /\ _syncTimer' = "undefined"

stop ==
    /\ StopEffect
    /\ probed' = FALSE
    /\ issuedBeforeStop' = (maxIssued # Undefined)
    /\ stopped' = TRUE
    /\ lastLatency' = Undefined
    /\ bestLatency' = Undefined
    /\ lastCall' = NoCall
    /\ UNCHANGED <<_lastTimeSent, orphanTimers, inflight, maxIssued, callVars,
                   foldVars, presenceVars>>

\* start(): stop(), then improveAccuracy() runs up to its await of the probe.
start ==
    /\ Loops < MaxLoops
    /\ StopEffect
    /\ inflight' = inflight + 1
    /\ probed' = FALSE
    /\ issuedBeforeStop' = (maxIssued # Undefined)
    /\ stopped' = FALSE
    /\ lastLatency' = Undefined
    /\ bestLatency' = Undefined
    /\ lastCall' = NoCall
    /\ UNCHANGED <<_lastTimeSent, orphanTimers, maxIssued, callVars, foldVars, presenceVars>>

\* A pending timer fires and calls improveAccuracy(), which issues a probe:
\* the timer _syncTimer refers to ...
SyncTimerFires ==
    /\ _syncTimer = "pending"
    /\ _syncTimer' = "stale"
    /\ inflight' = inflight + 1
    /\ lastCall' = NoCall
    /\ UNCHANGED <<_serverTime, _retries, _lastTimeSent, orphanTimers, probed,
                   maxIssued, issuedBeforeStop, stopped, lastLatency,
                   bestLatency, callVars, foldVars, presenceVars>>

\* ... or a timer whose handle was overwritten.
OrphanTimerFires ==
    /\ orphanTimers > 0
    /\ orphanTimers' = orphanTimers - 1
    /\ inflight' = inflight + 1
    /\ lastCall' = NoCall
    /\ UNCHANGED <<_serverTime, _syncTimer, _retries, _lastTimeSent, probed,
                   maxIssued, issuedBeforeStop, stopped, lastLatency,
                   bestLatency, callVars, foldVars, presenceVars>>

\* Mutant: every completed probe is adopted.
improveAccuracyAlwaysAdopts(offset) ==
    /\ _serverTime' = Some(offset)
    /\ _retries' = 0
    /\ _syncTimer' = "pending"
    /\ orphanTimers' = IF _syncTimer = "pending"
                       THEN orphanTimers + 1
                       ELSE orphanTimers

\* Mutant: a probe of equal latency is adopted too.
improveAccuracyAdoptsEqual(offset) ==
    /\ IF _serverTime = Undefined
          \/ offset.requestLatency <= _serverTime[1].requestLatency
       THEN /\ _serverTime' = Some(offset)
            /\ _retries' = 0
       ELSE /\ _retries' = _retries + 1
            /\ UNCHANGED _serverTime
    /\ IF _retries' <= SHARED_CLOCK_IMPROVE_ACCURACY_ATTEMPTS
       THEN _syncTimer' = "pending"
       ELSE _syncTimer' = "undefined"
    /\ orphanTimers' = IF _syncTimer = "pending"
                       THEN orphanTimers + 1
                       ELSE orphanTimers

\* improveAccuracy() after its await: the probe returned `offset`.
improveAccuracy(offset) ==
    /\ IF _serverTime = Undefined
          \/ offset.requestLatency < _serverTime[1].requestLatency
       THEN /\ _serverTime' = Some(offset)
            /\ _retries' = 0
       ELSE /\ _retries' = _retries + 1
            /\ UNCHANGED _serverTime
    /\ IF _retries' <= SHARED_CLOCK_IMPROVE_ACCURACY_ATTEMPTS
       THEN _syncTimer' = "pending"
       ELSE _syncTimer' = "undefined"
    /\ orphanTimers' = IF _syncTimer = "pending"
                       THEN orphanTimers + 1
                       ELSE orphanTimers

\* getNtpTime() resolves.
ProbeCompletes ==
    /\ inflight > 0
    /\ inflight' = inflight - 1
    /\ \E ntp \in ServerTimes, latency \in Latencies, now \in LocalTimes :
          /\ improveAccuracy(getSessionTimeOffset(ntp, latency, now))
          /\ lastLatency' = Some(latency)
          /\ bestLatency' = IF bestLatency = Undefined \/ latency < bestLatency[1]
                            THEN Some(latency)
                            ELSE bestLatency
    /\ probed' = TRUE
    /\ lastCall' = NoCall
    /\ UNCHANGED <<_lastTimeSent, maxIssued, issuedBeforeStop, stopped, callVars,
                   foldVars, presenceVars>>

\* getNtpTime() rejects: getSessionTimeOffset() and improveAccuracy() reject
\* at their await, and nothing after it runs.
ProbeFails ==
    /\ inflight > 0
    /\ inflight' = inflight - 1
    /\ lastCall' = NoCall
    /\ UNCHANGED <<_serverTime, _syncTimer, _retries, _lastTimeSent,
                   orphanTimers, probed, maxIssued, issuedBeforeStop, stopped,
                   lastLatency, bestLatency, callVars, foldVars, presenceVars>>

InitClock ==
    /\ ClockIdle
    /\ CallIdle
    /\ FoldIdle
    /\ PresenceIdle

NextClock ==
    \/ start
    \/ stop
    \/ getTimestamp
    \/ getMaxTimestampError
    \/ SyncTimerFires
    \/ OrphanTimerFires
    \/ ProbeCompletes
    \/ ProbeFails

SpecClock == InitClock /\ [][NextClock]_vars

----------------------------------------------------------------------------
(* LivePresence *)

\* PresenceState
PresenceStates == {"online", "away", "offline"}

\* User ids "a", "ab" and "b".
UserIds == {<<1>>, <<1, 2>>, <<2>>}

\* runtime.clientId of this client ("ab"); the other clients are "a" and "b".
LocalClientId == <<1, 2>>
RemoteClientIds == {<<1>>, <<2>>}

\* data?: TData
DataValues == {Undefined, Some("d")}

\* ILivePresenceEvent: { timestamp, clientId?, userId, state, data? }
\* Records authored by the other clients.
RemoteEvents ==
    [timestamp : Timestamps, userId : UserIds, state : {"online"},
     data : {Undefined}, clientId : {Some(c) : c \in RemoteClientIds}]

\* new LivePresenceUser(evt, expirationPeriod, isLocalUser). The user wraps
\* the record object it is given: shared is TRUE while that object is the
\* one _currentPresence refers to.
NewUser(evt, isLocalUser) ==
    [evt |-> evt, isLocalUser |-> isLocalUser, shared |-> FALSE]

\* LivePresenceUser.updateReceived(evt): the stored record is replaced, and
\* the change reported, when isNewer(existing, record, 0).
updateReceived(user, evt) == isNewer(Some(user.evt), evt, DefaultDebouncePeriod)

\* LivePresenceUser.state: offline once the stored record has expired.
EffectiveState(user, now) ==
    IF now - user.evt.timestamp > ExpirationPeriod
    THEN "offline"
    ELSE user.evt.state

\* The times at which the roster is read.
ReadTimes == 0..(MaxStamps + ExpirationPeriod + 1)

\* Mutant: splice(pos, 1, newUser) takes the user at pos out.
InsertAtReplaces(s, pos, x) ==
    SubSeq(s, 1, pos - 1) \o <<x>> \o SubSeq(s, pos + 1, Len(s))

InsertAt(s, pos, x) == SubSeq(s, 1, pos - 1) \o <<x>> \o SubSeq(s, pos, Len(s))

\* Mutant: the scan stops at the first user whatever its userId.
ScanStopsAlways(users, userId, pos) == TRUE

\* Mutant: the scan stops only at the user it looks for.
ScanStopsWhenFound(users, userId, pos) ==
    localeCompare(userId, users[pos].evt.userId) = 0

\* Mutant: the scan stops at the first user whose userId is not lower.
ScanStopsAscending(users, userId, pos) ==
    localeCompare(userId, users[pos].evt.userId) <= 0

\* The scan of updateMembersList leaves its loop at pos: cmp == 0 (user
\* found) or cmp > 0 (break).
ScanStops(users, userId, pos) ==
    localeCompare(userId, users[pos].evt.userId) >= 0

\* pos when the loop is left: the first position where the scan stops, or
\* _users.length.
FindPos(users, userId) ==
    IF \E pos \in 1..Len(users) : ScanStops(users, userId, pos)
    THEN CHOOSE pos \in 1..Len(users) :
            /\ ScanStops(users, userId, pos)
            /\ \A q \in 1..(pos - 1) : ~ScanStops(users, userId, q)
    ELSE Len(users) + 1

\* Mutant: every notification is reported as remote.
EmittedAsRemote(userId, local) == Some([userId |-> userId, local |-> FALSE])

\* emit(presenceChanged, user, local)
Emitted(userId, local) == Some([userId |-> userId, local |-> local])

\* updateMembersList(evt, local) on the list users: the list afterwards and
\* the notification emitted, if any.
updateMembersList(users, evt, local) ==
    LET pos == FindPos(users, evt.userId)
        found == /\ pos <= Len(users)
                 /\ localeCompare(evt.userId, users[pos].evt.userId) = 0
    IN  IF found
        THEN IF updateReceived(users[pos], evt)
             THEN [users |-> [users EXCEPT ![pos].evt = evt,
                                           ![pos].shared = FALSE],
                   emitted |-> Emitted(evt.userId, local)]
             ELSE [users |-> users, emitted |-> Undefined]
        ELSE [users |-> InsertAt(users, pos,
                          NewUser(evt, evt.userId = _currentPresence.userId)),
              emitted |-> Emitted(evt.userId, local)]

\* Mutant: the handler of the UpdatePresence event reports every event it is
\* handed, local echoes included.
OnUpdatePresenceReportsEcho(users, evt, local) ==
    IF ~local
    THEN updateMembersList(users, evt, local)
    ELSE [users |-> users, emitted |-> Emitted(evt.userId, local)]

\* The handler of the UpdatePresence event target: (evt, local) => { if
\* (!local) updateMembersList(evt, local) }
OnUpdatePresence(users, evt, local) ==
    IF ~local
    THEN updateMembersList(users, evt, local)
    ELSE [users |-> users, emitted |-> Undefined]

\* Mutant: forEach calls back for every user whatever the filter.
forEachIgnoresFilter(filter, now) == _users

\* _users.forEach(user => filter == undefined || user.state == filter)
forEach(filter, now) ==
    SelectSeq(_users, LAMBDA user :
        filter = Undefined \/ EffectiveState(user, now) = filter[1])

toArray(now) == forEach(Undefined, now)

getCount(filter, now) ==
    IF filter # Undefined
    THEN Cardinality({i \in 1..Len(_users) :
                        EffectiveState(_users[i], now) = filter[1]})
    ELSE Len(_users)

\* LivePresenceUser.isFromClient(clientId)
isFromClient(user, clientId) == user.evt.clientId = Some(clientId)

getPresenceForClient(clientId) ==
    IF \E i \in 1..Len(_users) : isFromClient(_users[i], clientId)
    THEN Some(_users[CHOOSE i \in 1..Len(_users) :
                /\ isFromClient(_users[i], clientId)
                /\ \A j \in 1..(i - 1) : ~isFromClient(_users[j], clientId)])
    ELSE Undefined

getPresenceForUser(userId) ==
    IF \E i \in 1..Len(_users) : _users[i].evt.userId = userId
    THEN Some(_users[CHOOSE i \in 1..Len(_users) :
                /\ _users[i].evt.userId = userId
                /\ \A j \in 1..(i - 1) : _users[j].evt.userId # userId])
    ELSE Undefined

\* The fields of SharedClock other than _lastTimeSent.
clockRest == <<_serverTime, _syncTimer, _retries, orphanTimers, inflight,
               probed, maxIssued, issuedBeforeStop, stopped, lastLatency,
               bestLatency, lastCall>>

\* Mutant: waitUntilConnected() resolves without a connection.
RunnableWithoutConnection == waiting # <<>>

\* A continuation of waitUntilConnected() can run.
Runnable == connected /\ waiting # <<>>

\* The updatePresence() continuations waiting for the connection.
PendingUpdates ==
    Cardinality({i \in 1..Len(waiting) : waiting[i].kind = "updatePresence"})

\* A write to a field of the _currentPresence object is seen by every user
\* that wraps that object.
WriteThrough(users, presence) ==
    [i \in 1..Len(users) |->
        IF users[i].shared THEN [users[i] EXCEPT !.evt = presence]
        ELSE users[i]]

\* _currentPresence now refers to another object.
Unshare(users) == [i \in 1..Len(users) |-> [users[i] EXCEPT !.shared = FALSE]]

\* updateMembersList(_currentPresence, true): the user that took the object
\* wraps _currentPresence.
MergeCurrent(users, presence) ==
    LET r == updateMembersList(users, presence, TRUE)
    IN  [users |-> [i \in 1..Len(r.users) |->
                      IF /\ r.emitted # Undefined
                         /\ r.users[i].evt.userId = presence.userId
                      THEN [r.users[i] EXCEPT !.shared = TRUE]
                      ELSE r.users[i]],
         emitted |-> r.emitted]

\* initialize(userId, data, state) up to its await.
initialize(userId, data, state) ==
    /\ ~Runnable
    /\ IF _scope
       THEN /\ lastOp' = [op |-> "initialize", threw |-> TRUE,
                          emitted |-> Undefined]
            /\ UNCHANGED <<_currentPresence, waiting, _lastTimeSent>>
       ELSE /\ Len(waiting) < MaxPending
            /\ _lastTimeSent + PendingUpdates < MaxStamps
            /\ \E now \in LocalTimes :
                 /\ _lastTimeSent' = AdjustedTimestamp(now)
                 /\ _currentPresence' =
                      [_currentPresence EXCEPT !.timestamp = _lastTimeSent',
                                               !.userId = userId,
                                               !.data = data,
                                               !.state = state]
            /\ waiting' = Append(waiting, [kind |-> "initialize",
                                           state |-> Undefined,
                                           data |-> Undefined])
            /\ lastOp' = [op |-> "initialize", threw |-> FALSE,
                          emitted |-> Undefined]
    /\ UNCHANGED <<_users, _scope, connected, echoes, lastMerge,
                   mergedOnce, syncVars, clockRest, callVars, foldVars>>

\* Mutant: updatePresence() does not test whether the object was started.
NotStartedNever == FALSE

\* if (!this._scope) throw new Error(`LivePresence: not started.`)
NotStarted == ~_scope

\* updatePresence(state, data) up to waitUntilConnected().then
updatePresence(state, data) ==
    /\ ~Runnable
    /\ IF NotStarted
       THEN /\ lastOp' = [op |-> "updatePresence", threw |-> TRUE,
                          emitted |-> Undefined]
            /\ UNCHANGED waiting
       ELSE /\ Len(waiting) < MaxPending
            /\ _lastTimeSent + PendingUpdates < MaxStamps
            /\ waiting' = Append(waiting, [kind |-> "updatePresence",
                                           state |-> state, data |-> data])
            /\ lastOp' = [op |-> "updatePresence", threw |-> FALSE,
                          emitted |-> Undefined]
    /\ UNCHANGED <<_users, _currentPresence, _scope, connected, echoes,
                   lastMerge, mergedOnce, syncVars, clockVars, callVars, foldVars>>

\* The rest of initialize() after its await.
ResumeInitialize ==
    LET presence == [_currentPresence EXCEPT !.clientId = Some(LocalClientId)]
        r == MergeCurrent(WriteThrough(_users, presence), presence)
    IN  /\ _currentPresence' = presence
        /\ _scope' = TRUE
        /\ _users' = r.users
        /\ lastOp' = [op |-> "resumeInitialize", threw |-> FALSE,
                      emitted |-> r.emitted]
        /\ _synchronizer' = "live"
        /\ orphanSynchronizers' = IF _synchronizer = "live"
                                  THEN orphanSynchronizers + 1
                                  ELSE orphanSynchronizers
        /\ UNCHANGED <<_lastTimeSent, echoes>>

\* The callback updatePresence() gave to waitUntilConnected().then
ResumeUpdatePresence(state, data) ==
    \E now \in LocalTimes :
        LET evt == [timestamp |-> AdjustedTimestamp(now),
                    userId |-> _currentPresence.userId,
                    state |-> IF state # Undefined THEN state[1]
                              ELSE _currentPresence.state,
                    data |-> IF data # Undefined THEN data
                             ELSE _currentPresence.data,
                    clientId |-> Some(LocalClientId)]
            r == MergeCurrent(Unshare(_users), evt)
        IN  /\ _lastTimeSent' = evt.timestamp
            /\ echoes' = echoes \cup {evt}
            /\ _currentPresence' = evt
            /\ _users' = r.users
            /\ lastOp' = [op |-> "resumeUpdatePresence", threw |-> FALSE,
                          emitted |-> r.emitted]
            /\ UNCHANGED <<_scope, syncVars>>

\* The promise of waitUntilConnected() that was made first resolves.
Resume ==
    /\ Runnable
    /\ waiting' = Tail(waiting)
    /\ IF Head(waiting).kind = "initialize"
       THEN ResumeInitialize
       ELSE ResumeUpdatePresence(Head(waiting).state, Head(waiting).data)
    /\ UNCHANGED <<connected, lastMerge, mergedOnce, clockRest, callVars,
                   foldVars>>

\* runtime "connected"
Connect ==
    /\ ~connected
    /\ connected' = TRUE
    /\ lastOp' = NoOp
    /\ UNCHANGED <<_users, _currentPresence, _scope, waiting, echoes,
                   lastMerge, mergedOnce, syncVars, clockVars, callVars,
                   foldVars>>

Disconnect ==
    /\ connected
    /\ ~Runnable
    /\ connected' = FALSE
    /\ lastOp' = NoOp
    /\ UNCHANGED <<_users, _currentPresence, _scope, waiting, echoes,
                   lastMerge, mergedOnce, syncVars, clockVars, callVars,
                   foldVars>>

\* A record of another client arrives, as an UpdatePresence event or as the
\* state the synchronizer received.
ReceiveRemote(evt) ==
    /\ _scope
    /\ ~Runnable
    /\ LET r == OnUpdatePresence(_users, evt, FALSE)
       IN  /\ _users' = r.users
           /\ lastOp' = [op |-> "receive", threw |-> FALSE,
                         emitted |-> r.emitted]
    /\ UNCHANGED <<_currentPresence, _scope, connected, waiting, echoes,
                   lastMerge, mergedOnce, syncVars, clockVars, callVars,
                   foldVars>>

\* An event this client sent is delivered back to it.
LoopBack(evt) ==
    /\ evt \in echoes
    /\ ~Runnable
    /\ echoes' = echoes \ {evt}
    /\ LET r == OnUpdatePresence(_users, evt, TRUE)
       IN  /\ _users' = r.users
           /\ lastOp' = [op |-> "loopBack", threw |-> FALSE,
                         emitted |-> r.emitted]
    /\ UNCHANGED <<_currentPresence, _scope, connected, waiting, lastMerge, mergedOnce, syncVars, clockVars, callVars, foldVars>>

\* The synchronizer asks for the local state: (connecting) => { ...; return
\* this._currentPresence }
GetLocalState ==
    /\ _synchronizer = "live" \/ orphanSynchronizers > 0
    /\ ~Runnable
    /\ _lastTimeSent + PendingUpdates < MaxStamps
    /\ \E now \in LocalTimes :
         /\ _lastTimeSent' = AdjustedTimestamp(now)
         /\ _currentPresence' =
              [_currentPresence EXCEPT !.timestamp = _lastTimeSent']
         /\ _users' = WriteThrough(_users, _currentPresence')
    /\ lastOp' = [op |-> "getLocalState", threw |-> FALSE,
                  emitted |-> Undefined]
    /\ UNCHANGED <<_scope, connected, waiting, echoes, lastMerge,
                   mergedOnce, syncVars, clockRest, callVars, foldVars>>

\* dispose(): super.dispose(), then the synchronizer _synchronizer refers to
\* is disposed.
dispose ==
    /\ ~Runnable
    /\ _synchronizer' = IF _synchronizer = "undefined" THEN "undefined"
                        ELSE "disposed"
    /\ lastOp' = [op |-> "dispose", threw |-> FALSE, emitted |-> Undefined]
    /\ UNCHANGED <<_users, _currentPresence, _scope, connected, waiting,
                   echoes, lastMerge, mergedOnce, orphanSynchronizers,
                   clockVars, callVars, foldVars>>

\* The operations that read the roster; none of them has a throw statement.
ReadOps == {"forEach", "getCount", "getPresenceForUser", "getPresenceForClient",
            "toArray"}

\* A call of forEach, getCount, getPresenceForUser, getPresenceForClient or
\* toArray made before initialize() has completed: it returns what the
\* operator of that name gives and writes no field. (Calls made later are
\* the operators themselves, evaluated in the state.)
Read(op) ==
    /\ ~_scope
    /\ ~Runnable
    /\ lastOp' = [op |-> op, threw |-> FALSE, emitted |-> Undefined]
    /\ UNCHANGED <<_users, _currentPresence, _scope, connected, waiting,
                   echoes, lastMerge, mergedOnce, syncVars, clockVars, callVars,
                   foldVars>>

\* The clock has been started and holds an estimate with no offset.
ClockRunning ==
    /\ _serverTime = Some(getSessionTimeOffset(0, 0, 0))
    /\ _syncTimer = "undefined"
    /\ _retries = 0
    /\ _lastTimeSent = 0
    /\ orphanTimers = 0
    /\ inflight = 0
    /\ probed = TRUE
    /\ maxIssued = Undefined
    /\ issuedBeforeStop = FALSE
    /\ stopped = FALSE
    /\ lastLatency = Some(0)
    /\ bestLatency = Some(0)
    /\ lastCall = NoCall

InitPresence ==
    /\ _users = <<>>
    /\ _currentPresence = [timestamp |-> 0, userId |-> <<>>, state |-> "offline",
                           data |-> Undefined, clientId |-> Undefined]
    /\ _scope = FALSE
    /\ connected \in BOOLEAN
    /\ waiting = <<>>
    /\ echoes = {}
    /\ lastOp = NoOp
    /\ lastMerge = Undefined
    /\ mergedOnce = Some({})
    /\ _synchronizer = "undefined"
    /\ orphanSynchronizers = 0
    /\ ClockRunning
    /\ CallIdle
    /\ FoldIdle

\* Arguments of initialize(): the local user is "ab".
InitializeArgs ==
    [userId : {<<1, 2>>}, data : {Undefined}, state : {"online"}]

\* Arguments of updatePresence().
UpdateArgs ==
    {[state |-> Some("away"), data |-> Undefined],
     [state |-> Undefined, data |-> Some("d")]}

\* The records the peer "b" sends.
PeerEvents == {evt \in RemoteEvents : evt.clientId = Some(<<2>>)}

NextPresence ==
    \/ \E a \in InitializeArgs : initialize(a.userId, a.data, a.state)
    \/ \E a \in UpdateArgs : updatePresence(a.state, a.data)
    \/ Resume
    \/ Connect
    \/ Disconnect
    \/ \E evt \in PeerEvents : ReceiveRemote(evt)
    \/ \E evt \in echoes : LoopBack(evt)
    \/ GetLocalState
    \/ \E op \in ReadOps : Read(op)
    \/ dispose

SpecPresence == InitPresence /\ [][NextPresence]_vars

----------------------------------------------------------------------------
(* updateMembersList() applied to drawn records on a constructed LivePresence *)

MergeRecord(evt, local) ==
    LET r == updateMembersList(_users, evt, local)
    IN  /\ _users' = r.users
        /\ lastOp' = [op |-> "merge", threw |-> FALSE, emitted |-> r.emitted]
        /\ lastMerge' =
             Some([evt |-> evt,
                   local |-> local,
                   found |-> \E i \in 1..Len(_users) :
                               _users[i].evt.userId = evt.userId,
                   changed |-> r.emitted # Undefined,
                   repeat |-> /\ lastMerge # Undefined
                              /\ lastMerge[1].evt = evt
                              /\ lastMerge[1].changed])
        /\ mergedOnce' =
             IF /\ mergedOnce # Undefined
                /\ \A e \in mergedOnce[1] : e.userId # evt.userId
             THEN Some(mergedOnce[1] \cup {evt})
             ELSE Undefined
        /\ UNCHANGED <<_currentPresence, _scope, connected, waiting, echoes,
                       syncVars, clockVars, callVars, foldVars>>

\* The records drawn: two clients, three users, timestamps up to MaxMergeTime.
MergeEvents == {evt \in RemoteEvents : evt.timestamp <= MaxMergeTime}

InitMerge ==
    /\ PresenceIdle
    /\ ClockIdle
    /\ CallIdle
    /\ FoldIdle

NextMerge == \E evt \in MergeEvents : \E local \in BOOLEAN : MergeRecord(evt, local)

SpecMerge == InitMerge /\ [][NextMerge]_vars

----------------------------------------------------------------------------
(* Properties of isNewer() *)

\* a sorts strictly before b (lexicographic order of strings).
SortsBefore(a, b) ==
    \E k \in 1..Len(b) :
        /\ Len(a) >= k - 1
        /\ \A i \in 1..(k - 1) : a[i] = b[i]
        /\ (Len(a) = k - 1 \/ a[k] < b[k])

CallReturned == callResult # Undefined
CallSameTimestamp ==
    callCurrent # Undefined /\ callCurrent[1].timestamp = callReceived.timestamp
CallOlder ==
    callCurrent # Undefined /\ callCurrent[1].timestamp > callReceived.timestamp
CallNewer ==
    callCurrent # Undefined /\ callCurrent[1].timestamp < callReceived.timestamp
CallCurrentId == OrEmpty(callCurrent[1].clientId)
CallReceivedId == OrEmpty(callReceived.clientId)
CallDelta ==
    IF callCurrent[1].timestamp > callReceived.timestamp
    THEN callCurrent[1].timestamp - callReceived.timestamp
    ELSE callReceived.timestamp - callCurrent[1].timestamp

\* The record of S with the greatest timestamp and, among the records of that
\* timestamp, the client id of the lowest sort order.
Winner(S) ==
    CHOOSE w \in S :
        \A o \in S :
            \/ o.timestamp < w.timestamp
            \/ /\ o.timestamp = w.timestamp
               /\ ~SortsBefore(OrEmpty(o.clientId), OrEmpty(w.clientId))

\* C1 (as claimed): for any debounce period, two replicas that were delivered
\* the same set of records, in any order and with duplicates, hold the same
\* current record.
C1_ReplicasConverge ==
    (seen["A"] = records /\ seen["B"] = records) => current["A"] = current["B"]

\* C2: with debounce period 0, a replica that was delivered the set S of
\* records with pairwise distinct (timestamp, clientId), in any order and with
\* duplicates, holds the record of S with the greatest timestamp and, among
\* those, the lowest sorting clientId; so replicas that saw the same set agree.
C2_FoldHoldsWinner ==
    /\ \A r \in Replicas :
          seen[r] # {} => current[r] = Some(Winner(seen[r]))
    /\ seen["A"] = seen["B"] => current["A"] = current["B"]

\* C2 witness: both replicas were delivered all of a full-size set in which two
\* records share the greatest timestamp.
C2_Witness ==
    /\ Cardinality(records) = MaxRecords
    /\ seen["A"] = records /\ seen["B"] = records
    /\ \E x, y \in records :
          /\ x # y
          /\ x.timestamp = y.timestamp
          /\ \A z \in records : z.timestamp <= x.timestamp
    /\ current["A"] = Some(Winner(records))

\* C3 (as claimed): on equal timestamps isNewer is true exactly when the
\* received client id sorts strictly after the current one (absent = "").
C3_HigherIdWins ==
    (CallReturned /\ CallSameTimestamp)
        => (callResult[1] <=> SortsBefore(CallCurrentId, CallReceivedId))

\* C3 (amended): on equal timestamps, for any debounce period, isNewer is true
\* exactly when the received client id sorts strictly before the current one
\* (an absent client id counting as the empty string), false otherwise.
C3_LowerIdWins ==
    (CallReturned /\ CallSameTimestamp)
        => (callResult[1] <=> SortsBefore(CallReceivedId, CallCurrentId))

\* C3 witness: a received record without client id beat a current record of
\* the same timestamp under a non-zero debounce period.
C3_Witness ==
    /\ CallReturned /\ CallSameTimestamp
    /\ callReceived.clientId = Undefined
    /\ callCurrent[1].clientId # Undefined
    /\ callDebounce > 0
    /\ callResult[1] = TRUE

\* C4 (as claimed): for an older received record isNewer is true exactly when
\* current.timestamp - received.timestamp > debouncePeriod.
C4_OldEnoughAccepted ==
    (CallReturned /\ CallOlder) => (callResult[1] <=> CallDelta > callDebounce)

\* C4 (amended): for an older received record isNewer is true exactly when
\* current.timestamp - received.timestamp <= debouncePeriod.
C4_OlderWithinDebounceAccepted ==
    (CallReturned /\ CallOlder) => (callResult[1] <=> CallDelta <= callDebounce)

\* C4 witness: an older record at exactly the debounce distance was accepted.
C4_Witness ==
    /\ CallReturned /\ CallOlder
    /\ CallDelta = callDebounce
    /\ callResult[1] = TRUE

\* C5: an older received record whose distance exceeds the debounce period is
\* not newer; with the default debounce period no older record is newer.
C5_OlderBeyondDebounceIgnored ==
    (CallReturned /\ CallOlder) =>
        /\ CallDelta > callDebounce => callResult[1] = FALSE
        /\ callDebounce = DefaultDebouncePeriod => callResult[1] = FALSE

\* C5 witness: an older record two ticks back was ignored under debounce 1.
C5_Witness ==
    /\ CallReturned /\ CallOlder
    /\ CallDelta = 2 /\ callDebounce = 1
    /\ callResult[1] = FALSE

\* C6: without a current record every received record is newer; a received
\* record with a greater timestamp is newer exactly when
\* received.timestamp - current.timestamp >= debouncePeriod.
C6_AbsentAndNewerReceived ==
    CallReturned =>
        /\ callCurrent = Undefined => callResult[1] = TRUE
        /\ CallNewer => (callResult[1] <=> CallDelta >= callDebounce)

\* C6 witness: a newer record at exactly the (non-zero) debounce distance was
\* accepted.
C6_Witness ==
    /\ CallReturned /\ CallNewer
    /\ callDebounce > 0
    /\ CallDelta = callDebounce
    /\ callResult[1] = TRUE

----------------------------------------------------------------------------
(* Properties of SharedClock *)

CallOf(op) == lastCall.op = op
ClockCall == CallOf("getTimestamp") \/ CallOf("getMaxTimestampError")

\* C7: every timestamp getTimestamp() returns is strictly greater than every
\* timestamp the instance returned before, whatever the wall clock reads, the
\* offset adopted, and the stop()/start() cycles in between.
C7_StrictlyMonotonic ==
    (CallOf("getTimestamp") /\ ~lastCall.threw /\ lastCall.prevMax # Undefined)
        => lastCall.value[1] > lastCall.prevMax[1]

\* C7 witness: after a stop() that followed an issued timestamp, a timestamp was
\* issued under an offset so small that no wall clock reading reaches the
\* previous timestamp; the value is the previous one plus 1.
C7_Witness ==
    /\ CallOf("getTimestamp") /\ ~lastCall.threw
    /\ issuedBeforeStop
    /\ lastCall.prevMax # Undefined
    /\ MaxTime + _serverTime[1].offset < lastCall.prevMax[1]
    /\ lastCall.value[1] = lastCall.prevMax[1] + 1

\* C8: getTimestamp() and getMaxTimestampError() throw, return nothing and
\* change nothing exactly when no probe has succeeded since the last stop()
\* (or since construction); otherwise both return a value.
C8_ThrowsWithoutEstimate ==
    /\ probed <=> _serverTime # Undefined
    /\ ClockCall =>
          /\ lastCall.threw <=> ~probed
          /\ lastCall.threw =>
                /\ lastCall.value = Undefined
                /\ _lastTimeSent = lastCall.lastBefore
                /\ maxIssued = lastCall.prevMax
          /\ ~lastCall.threw => lastCall.value # Undefined

\* C8 witness: getTimestamp() threw after a stop(), on an instance that had
\* returned timestamps before.
C8_Witness ==
    /\ CallOf("getTimestamp")
    /\ lastCall.threw
    /\ issuedBeforeStop

\* C9 (as claimed): once 5 consecutive probes have failed to improve, no
\* further probe is scheduled.
C9_NoTimerAfterFiveRetries ==
    _retries >= SHARED_CLOCK_IMPROVE_ACCURACY_ATTEMPTS => _syncTimer # "pending"

\* C10 (as claimed): a failed probe increments the non-improvement counter,
\* leaves the estimate unchanged and, within the budget, the next probe is
\* scheduled.
C10_FailedProbeCounts ==
    [][ProbeFails =>
          /\ _retries' = _retries + 1
          /\ _serverTime' = _serverTime
          /\ _retries' < SHARED_CLOCK_IMPROVE_ACCURACY_ATTEMPTS
                => _syncTimer' = "pending"]_vars

\* C11 (as claimed): after stop() and until start() the clock holds no
\* estimate and has no pending sampling timer, also when a probe that was in
\* flight at stop() completes afterwards.
C11_StaysStopped ==
    stopped => (_serverTime = Undefined /\ _syncTimer # "pending")

\* C12 (as claimed): getMaxTimestampError() returns half, rounded down, of the
\* latency of the most recent probe.
C12_HalfOfMostRecentLatency ==
    (CallOf("getMaxTimestampError") /\ ~lastCall.threw)
        => lastCall.value = Some(lastLatency[1] \div 2)

\* C12 (amended): getMaxTimestampError() returns half, rounded down, of the
\* latency of the estimate held, which is the lowest latency of the probes
\* completed since the last stop() or start().
C12_HalfOfBestLatency ==
    (CallOf("getMaxTimestampError") /\ ~lastCall.threw)
        => /\ bestLatency # Undefined
           /\ lastCall.value = Some(bestLatency[1] \div 2)

\* C12 witness: the probe completed last was slower than the best one and the
\* value returned is half the best latency, not half the last.
C12_Witness ==
    /\ CallOf("getMaxTimestampError") /\ ~lastCall.threw
    /\ lastLatency # Undefined /\ bestLatency # Undefined
    /\ lastLatency[1] \div 2 > bestLatency[1] \div 2
    /\ lastCall.value = Some(bestLatency[1] \div 2)

----------------------------------------------------------------------------
(* Properties of LivePresence *)

UserIdAt(i) == _users[i].evt.userId

\* C13: in every reachable state the roster holds at most one user per
\* userId.
C13_OneUserPerUserId ==
    \A i, j \in 1..Len(_users) : UserIdAt(i) = UserIdAt(j) => i = j

\* Three users are held, this client has sent an update of its own and the
\* record received last was for a user already held and was rejected.
C13_Witness ==
    /\ Len(_users) = 3
    /\ echoes # {}
    /\ lastOp.op = "receive"
    /\ lastOp.emitted = Undefined

\* C14, as stated: the users are ordered by userId ascending.
C14_AscendingOrder ==
    \A i, j \in 1..Len(_users) : i < j => SortsBefore(UserIdAt(i), UserIdAt(j))

\* C14, amended: in every reachable state the users are ordered by userId
\* descending, and forEach without a filter and toArray visit them in that
\* order.
C14_DescendingOrder ==
    /\ \A i, j \in 1..Len(_users) :
         i < j => SortsBefore(UserIdAt(j), UserIdAt(i))
    /\ \A now \in LocalTimes :
         /\ forEach(Undefined, now) = _users
         /\ toArray(now) = _users

\* The record received last put its user between two others.
C14_Witness ==
    /\ Len(_users) = 3
    /\ lastOp.op = "receive"
    /\ lastOp.emitted = Some([userId |-> UserIdAt(2), local |-> FALSE])
    /\ SortsBefore(UserIdAt(3), UserIdAt(2))
    /\ SortsBefore(UserIdAt(2), UserIdAt(1))

\* C15: a record applied again right after it was applied changes nothing
\* in the roster and emits no notification; a record for a user the roster
\* does not hold reports a change and emits a notification when first
\* applied.
C15_SecondApplicationIsNoOp ==
    [][/\ (/\ lastMerge # Undefined
           /\ lastMerge' # Undefined
           /\ lastMerge'[1].evt = lastMerge[1].evt)
          => (/\ _users' = _users
              /\ ~lastMerge'[1].changed
              /\ lastOp'.emitted = Undefined)
       /\ (lastMerge' # Undefined /\ ~lastMerge'[1].found)
          => (/\ lastMerge'[1].changed
              /\ lastOp'.emitted # Undefined)]_vars

\* The record applied last had just been applied and had changed the roster
\* then; this time it changed nothing.
C15_Witness ==
    /\ lastMerge # Undefined
    /\ lastMerge[1].repeat
    /\ ~lastMerge[1].changed
    /\ lastOp.emitted = Undefined

\* C16: records with pairwise different userId, merged into an empty roster
\* in whatever order, leave the roster the set of records determines: one
\* user per record, holding that record, in descending order of userId.
C16_OrderIndependent ==
    mergedOnce # Undefined =>
        /\ Len(_users) = Cardinality(mergedOnce[1])
        /\ {_users[i].evt : i \in 1..Len(_users)} = mergedOnce[1]
        /\ \A i, j \in 1..Len(_users) :
             i < j => SortsBefore(UserIdAt(j), UserIdAt(i))

\* Three records of different users were merged and the one merged last
\* landed between the other two.
C16_Witness ==
    /\ mergedOnce # Undefined
    /\ Cardinality(mergedOnce[1]) = 3
    /\ lastMerge[1].evt = _users[2].evt

\* The position of the user with this userId.
PosOf(userId) == CHOOSE i \in 1..Len(_users) : UserIdAt(i) = userId

\* C17: a merged record replaces the stored record of its user exactly when
\* isNewer(existing, record, 0), and otherwise leaves the roster unchanged;
\* a record of a user not held inserts a user. One notification, carrying
\* the local flag of the merge, is emitted for an accepted record and none
\* for a rejected one.
C17_MergeStep ==
    [][lastMerge' # Undefined =>
        LET evt == lastMerge'[1].evt
            notification == Some([userId |-> evt.userId,
                                  local |-> lastMerge'[1].local])
        IN  IF \E i \in 1..Len(_users) : UserIdAt(i) = evt.userId
            THEN IF isNewer(Some(_users[PosOf(evt.userId)].evt), evt, 0)
                 THEN /\ _users' = [_users EXCEPT ![PosOf(evt.userId)].evt = evt]
                      /\ lastOp'.emitted = notification
                 ELSE /\ _users' = _users
                      /\ lastOp'.emitted = Undefined
            ELSE /\ \E pos \in 1..Len(_users') :
                      /\ _users'[pos].evt = evt
                      /\ _users = SubSeq(_users', 1, pos - 1)
                                    \o SubSeq(_users', pos + 1, Len(_users'))
                 /\ lastOp'.emitted = notification]_vars

\* A locally authored record replaced the stored record of its user and the
\* notification carried local = true.
C17_Witness ==
    /\ lastMerge # Undefined
    /\ lastMerge[1].found
    /\ lastMerge[1].changed
    /\ lastMerge[1].local
    /\ lastOp.emitted = Some([userId |-> lastMerge[1].evt.userId, local |-> TRUE])

\* The arguments of the updatePresence() call made last, while its callback
\* is waiting for the connection.
LastRequested == waiting[Len(waiting)]
UpdateWaits ==
    /\ ~Runnable
    /\ waiting # <<>>
    /\ LastRequested.kind = "updatePresence"

\* C18, as stated: once updatePresence(state, data) has returned, state and
\* data of the local presence and of the local user's roster entry are the
\* values asked for, connected or not.
C18_ReflectedImmediately ==
    UpdateWaits =>
        LET user == getPresenceForUser(_currentPresence.userId)
        IN  /\ LastRequested.state # Undefined =>
                 /\ _currentPresence.state = LastRequested.state[1]
                 /\ user # Undefined /\ user[1].evt.state = LastRequested.state[1]
            /\ LastRequested.data # Undefined =>
                 /\ _currentPresence.data = LastRequested.data
                 /\ user # Undefined /\ user[1].evt.data = LastRequested.data

\* C19: the delivery of an event of this client back to it leaves the roster
\* and the local presence as they are and emits no notification, and the
\* callback of a local update emits at most the one notification of the
\* local user, flagged local.
C19_LoopBackIsNoOp ==
    [][/\ lastOp'.op = "loopBack" =>
            /\ _users' = _users
            /\ _currentPresence' = _currentPresence
            /\ lastOp'.emitted = Undefined
       /\ lastOp'.op = "resumeUpdatePresence" =>
            lastOp'.emitted \in
                {Undefined,
                 Some([userId |-> _currentPresence'.userId, local |-> TRUE])}
      ]_vars

\* An update of this client was echoed back while the roster held the local
\* user and two others.
C19_Witness ==
    /\ lastOp.op = "loopBack"
    /\ Len(_users) = 3
    /\ \E i \in 1..Len(_users) : _users[i].evt.clientId = Some(LocalClientId)

\* C20, as stated: every roster operation called before initialize() has
\* completed fails.
C20_AllFailBeforeInitialize ==
    (~_scope /\ lastOp.op \in ReadOps \cup {"updatePresence"}) => lastOp.threw

\* C20, amended: updatePresence() fails exactly when initialize() has not
\* completed, and then changes nothing; forEach, getCount,
\* getPresenceForUser, getPresenceForClient and toArray never fail and
\* change nothing, and before initialize() has completed they see an empty
\* roster.
C20_OnlyUpdatePresenceFails ==
    [][/\ lastOp'.op = "updatePresence" =>
            /\ lastOp'.threw <=> ~_scope
            /\ lastOp'.threw =>
                 UNCHANGED <<_users, _currentPresence, _scope, connected,
                             waiting, echoes, clockVars>>
       /\ lastOp'.op \in ReadOps =>
            /\ ~lastOp'.threw
            /\ UNCHANGED <<_users, _currentPresence, _scope, connected,
                           waiting, echoes, clockVars>>
            /\ ~_scope =>
                 /\ \A now \in LocalTimes :
                      /\ forEach(Undefined, now) = <<>>
                      /\ toArray(now) = <<>>
                      /\ getCount(Undefined, now) = 0
                 /\ \A userId \in UserIds :
                      getPresenceForUser(userId) = Undefined
                 /\ \A clientId \in RemoteClientIds \cup {LocalClientId} :
                      getPresenceForClient(clientId) = Undefined
      ]_vars

\* updatePresence() was called, and failed, while initialize() was waiting
\* for the connection.
C20_Witness ==
    /\ ~_scope
    /\ waiting # <<>>
    /\ lastOp.op = "updatePresence"
    /\ lastOp.threw

\* The initialize() calls waiting for the connection.
PendingInitializes ==
    Cardinality({i \in 1..Len(waiting) : waiting[i].kind = "initialize"})

\* C21, as stated: an initialize() call made after another one, completed or
\* still waiting for the connection, fails, and no second synchronizer is
\* ever created.
C21_LaterInitializeFails ==
    /\ (lastOp.op = "initialize" /\ (_scope \/ PendingInitializes > 1))
          => lastOp.threw
    /\ orphanSynchronizers = 0

\* The stored record of the user is older than the expiration period at now.
Expired(user, now) == now - user.evt.timestamp > ExpirationPeriod

\* C22: read at any time, a user's state is offline once its stored record
\* has expired and its stored state otherwise (so also right after a fresher
\* record was merged); forEach(online) and getCount(online) leave out the
\* expired users, forEach() and getCount() without a filter keep every user,
\* and the stored records are what was merged.
C22_LazyExpiry ==
    \A now \in ReadTimes :
        LET online == SelectSeq(_users, LAMBDA user :
                        user.evt.state = "online" /\ ~Expired(user, now))
        IN  /\ forEach(Some("online"), now) = online
            /\ getCount(Some("online"), now) = Len(online)
            /\ forEach(Undefined, now) = _users
            /\ getCount(Undefined, now) = Len(_users)
            /\ \A i \in 1..Len(_users) :
                 EffectiveState(_users[i], now) =
                    IF Expired(_users[i], now) THEN "offline"
                    ELSE _users[i].evt.state
            /\ lastOp.emitted # Undefined =>
                 LET user == getPresenceForUser(lastOp.emitted[1].userId)[1]
                 IN  ~Expired(user, now) =>
                        EffectiveState(user, now) = user.evt.state

\* A peer's record with timestamp 0 and state online was merged last: read
\* at ExpirationPeriod + 1 its user is offline, left out by the online filter
\* and still counted without a filter.
C22_Witness ==
    /\ lastOp.op = "receive"
    /\ lastOp.emitted # Undefined
    /\ LET user == getPresenceForUser(lastOp.emitted[1].userId)[1]
           now == ExpirationPeriod + 1
       IN  /\ user.evt.timestamp = 0
           /\ user.evt.state = "online"
           /\ EffectiveState(user, now) = "offline"
           /\ \A i \in 1..Len(forEach(Some("online"), now)) :
                forEach(Some("online"), now)[i] # user
           /\ getCount(Some("online"), now) < getCount(Undefined, now)
           /\ \E i \in 1..Len(forEach(Undefined, now)) :
                forEach(Undefined, now)[i] = user

\* C23: updatePresence() on an initialized roster does not fail and only
\* queues its update; nothing queued runs while disconnected; once connected
\* the queued calls run before anything else, oldest first, each one sending
\* its record and making it the local presence (and the local user's stored
\* record when the merge accepts it); initialize() completes only while
\* connected.
C23_UpdatesWaitForConnection ==
    [][/\ (lastOp'.op = "updatePresence" /\ _scope) =>
            /\ ~lastOp'.threw
            /\ Len(waiting') = Len(waiting) + 1
            /\ SubSeq(waiting', 1, Len(waiting)) = waiting
            /\ waiting'[Len(waiting')].kind = "updatePresence"
            /\ _currentPresence' = _currentPresence
            /\ echoes' = echoes
       /\ ~connected => Len(waiting') >= Len(waiting)
       /\ (connected /\ waiting # <<>>) => waiting' = Tail(waiting)
       /\ lastOp'.op = "resumeUpdatePresence" =>
            /\ connected
            /\ waiting' = Tail(waiting)
            /\ _currentPresence'.state =
                 IF Head(waiting).state # Undefined
                 THEN Head(waiting).state[1]
                 ELSE _currentPresence.state
            /\ _currentPresence'.data =
                 IF Head(waiting).data # Undefined
                 THEN Head(waiting).data
                 ELSE _currentPresence.data
            /\ _currentPresence' \in echoes'
            /\ lastOp'.emitted # Undefined =>
                 \E i \in 1..Len(_users') : _users'[i].evt = _currentPresence'
       /\ (~_scope /\ _scope') =>
            /\ connected
            /\ lastOp'.op = "resumeInitialize"
      ]_vars

\* Two updates were waiting for the connection; the first has just been sent
\* and applied and the second is next.
C23_Witness ==
    /\ lastOp.op = "resumeUpdatePresence"
    /\ lastOp.emitted # Undefined
    /\ connected
    /\ Len(waiting) = 1
    /\ waiting[1].kind = "updatePresence"

\* C24: the record the roster returns when asked for its local state is the
\* local presence with a newly issued timestamp, greater than the timestamp
\* of the local presence before and of every record sent before, so that
\* isNewer(earlier, returned, 0) is true for each of them; no record of this
\* client is ever stamped later than the last timestamp issued.
C24_HeartbeatIsFresh ==
    [][/\ lastOp'.op = "getLocalState" =>
            /\ _currentPresence' =
                 [_currentPresence EXCEPT !.timestamp = _lastTimeSent']
            /\ _lastTimeSent' > _lastTimeSent
            /\ \A earlier \in echoes \cup {_currentPresence} :
                 /\ earlier.timestamp < _currentPresence'.timestamp
                 /\ isNewer(Some(earlier), _currentPresence',
                            DefaultDebouncePeriod)
       /\ _lastTimeSent' >= _lastTimeSent
       /\ \A sent \in echoes' \cup {_currentPresence'} :
            sent.timestamp <= _lastTimeSent'
      ]_vars

\* The roster was asked for its local state after it had sent an update that
\* has not been echoed yet.
C24_Witness ==
    /\ lastOp.op = "getLocalState"
    /\ echoes # {}
    /\ \A sent \in echoes : sent.timestamp < _currentPresence.timestamp

\* C26: no step takes a user out of the roster: every userId held stays held
\* and the unfiltered getCount() does not decrease.
C26_UsersAreNeverRemoved ==
    [][/\ \A i \in 1..Len(_users) :
            \E j \in 1..Len(_users') : _users'[j].evt.userId = UserIdAt(i)
       /\ Len(_users') >= Len(_users)
       /\ \A now \in ReadTimes :
            getCount(Undefined, now)' >= getCount(Undefined, now)
      ]_vars

\* dispose() was called on a roster of three users, one of them expired.
C26_Witness ==
    /\ lastOp.op = "dispose"
    /\ Len(_users) = 3
    /\ \E i \in 1..Len(_users) : Expired(_users[i], ExpirationPeriod + 1)

\* C27, as stated: asking the roster for its local state changes no roster
\* entry and no field of a record that was sent, and a local update changes
\* at most the local user's entry, by replacing its record with the new one.
C27_RecordsAreImmutable ==
    [][/\ lastOp'.op = "getLocalState" =>
            /\ _users' = _users
            /\ _currentPresence \in echoes =>
                 _currentPresence' = _currentPresence
       /\ lastOp'.op = "resumeUpdatePresence" =>
            \A i \in 1..Len(_users) :
                \/ _users'[i].evt = _users[i].evt
                \/ /\ _users'[i].evt = _currentPresence'
                   /\ lastOp'.emitted # Undefined
      ]_vars

----------------------------------------------------------------------------
(* Further properties of SharedClock and isNewer() *)

\* The step is the completion of a probe: improveAccuracy() ran past its
\* await.
ProbeCompleted ==
    /\ inflight' = inflight - 1
    /\ (_serverTime' # _serverTime \/ _retries' = _retries + 1)

\* C25: a completed probe replaces the estimate exactly when there is none
\* or its latency is strictly lower; the latency of the estimate held never
\* increases while an estimate is held, and it is the lowest latency of the
\* probes completed since the last start() or stop().
C25_BestEstimate ==
    [][/\ ProbeCompleted =>
            /\ (_serverTime' # _serverTime) <=>
                 \/ _serverTime = Undefined
                 \/ lastLatency'[1] < _serverTime[1].requestLatency
            /\ (_serverTime' # _serverTime) =>
                 /\ _serverTime'[1].requestLatency = lastLatency'[1]
                 /\ _retries' = 0
       /\ (_serverTime # Undefined /\ _serverTime' # Undefined) =>
            _serverTime'[1].requestLatency <= _serverTime[1].requestLatency
       /\ _serverTime' # Undefined =>
            /\ bestLatency' # Undefined
            /\ _serverTime'[1].requestLatency = bestLatency'[1]
      ]_vars

\* The probe completed last had the latency of the estimate held and was
\* counted as bringing no improvement.
C25_Witness ==
    /\ _serverTime # Undefined
    /\ _retries > 0
    /\ lastLatency = bestLatency
    /\ _serverTime[1].requestLatency = lastLatency[1]

\* C28, as stated: the pending timers and the probes in flight, all of which
\* will run improveAccuracy() on the clock, are never more than one.
C28_SingleSamplingLoop ==
    inflight + orphanTimers + (IF _syncTimer = "pending" THEN 1 ELSE 0) <= 1

\* C29, as stated: when isNewer(a, b, debouncePeriod) is true,
\* isNewer(b, a, debouncePeriod) is not.
C29_NoMutualReplacement ==
    (CallReturned /\ callCurrent # Undefined /\ callResult[1]) =>
        ~isNewer(Some(callReceived), callCurrent[1], callDebounce)

====
